---- MODULE Spec2Model ----
(***************************************************************************)
(* The loopback redirect listener of tauri-plugin-oauth (src/src/lib.rs):  *)
(* start binds 127.0.0.1:0 and spawns a thread that accepts connections    *)
(* one at a time and hands each to handle_connection; cancel connects to   *)
(* the port and writes the EXIT bytes.                                     *)
(***************************************************************************)
EXTENDS Integers, Sequences, FiniteSets, TLC

(***************************************************************************)
(* Bounds of the model.                                                    *)
(***************************************************************************)
\* How many calls of start are modelled (each gets a listener id).
MaxListeners == 2
\* How many connections may be pending (queued or being read) at a time,
\* summed over all listeners.
MaxQueue == 2
\* How many loopback ports the operating system hands out.
NumPorts == 2
\* A listener whose callback was invoked this many times takes no further
\* step (the code never gets past one; the cap keeps a faulty variant finite).
MaxCalls == 2

Listeners == 1..MaxListeners
\* The ports bind(127.0.0.1:0) can be given.
Ports == 49152..(49152 + NumPorts - 1)
\* No port assigned (the 0 that bind is asked for).
NoPort == 0

(***************************************************************************)
(* Bytes and strings.  A header value is a sequence of bytes, a String a   *)
(* sequence of Unicode code points.                                        *)
(***************************************************************************)
EXIT == <<1, 3, 3, 7>>

ReplacementChar == 65533

\* String::from_utf8_lossy(v).to_string(), for byte sequences over ASCII,
\* two-byte sequences (0xC2..0xDF followed by a continuation byte) and bytes
\* that can start no valid sequence: an ASCII byte is its own code point, a
\* well-formed two-byte sequence decodes to one code point, any other byte
\* becomes U+FFFD.
RECURSIVE from_utf8_lossy(_)
from_utf8_lossy(v) ==
    IF v = <<>> THEN <<>>
    ELSE IF v[1] < 128 THEN <<v[1]>> \o from_utf8_lossy(Tail(v))
    ELSE IF /\ v[1] \in 194..223
            /\ Len(v) >= 2
            /\ v[2] \in 128..191
         THEN <<(v[1] - 192) * 64 + (v[2] - 128)>> \o from_utf8_lossy(Tail(Tail(v)))
    ELSE <<ReplacementChar>> \o from_utf8_lossy(Tail(v))

\* str::starts_with on byte sequences.
starts_with(v, prefix) ==
    /\ Len(v) >= Len(prefix)
    /\ SubSeq(v, 1, Len(prefix)) = prefix

\* "localhost" and "127.0.0.1" as bytes (ASCII: also their code points).
LocalhostBytes == <<108, 111, 99, 97, 108, 104, 111, 115, 116>>
LoopbackBytes == <<49, 50, 55, 46, 48, 46, 48, 46, 49>>

\* Option<String>.
None == [some |-> FALSE, s |-> <<>>]
Some(s) == [some |-> TRUE, s |-> s]

(***************************************************************************)
(* What a connection delivers.  io says how conn.read ends: "data" (the    *)
(* bytes arrive), "eof" (the peer closed without sending: Ok(0)), "err"    *)
(* (the read fails), "block" (the peer keeps the connection open and sends *)
(* nothing: the read does not return), "aborted" (the peer reset the       *)
(* connection while it was queued: accepting it fails).  first4 are the   *)
(* first four bytes of the data; req is what httparse makes of the data    *)
(* followed by the zero bytes that fill the rest of the buffer: status     *)
(* "Complete", "Partial" (the request fills the whole buffer and is not    *)
(* finished) or "Err", the path (has_path FALSE when the parser did not    *)
(* get to it) and the headers it stored, in order.                         *)
(***************************************************************************)
Header(n, v) == [name |-> n, value |-> v]

Request(st, hp, p, hs) == [status |-> st, has_path |-> hp, path |-> p, headers |-> hs]

NoRequest == Request("Err", FALSE, "", <<>>)

Conn(io, f4, req) == [io |-> io, first4 |-> f4, req |-> req]

GetBytes == <<71, 69, 84, 32>>

Http(p, hs) == Conn("data", GetBytes, Request("Complete", TRUE, p, hs))

\* The buffer handle_connection starts from: let mut buffer = [0; 4048].
ZeroBuffer == [first4 |-> <<0, 0, 0, 0>>, req |-> NoRequest]

\* Header values used by the clients of the model.
UrlAscii == <<97, 35, 98>>
UrlTwoByte == <<97, 195, 169>>
UrlNotUtf8 == <<97, 255>>

SentinelConn == Conn("data", EXIT, NoRequest)
EofConn == Conn("eof", <<0, 0, 0, 0>>, NoRequest)
ReadErrConn == Conn("err", <<0, 0, 0, 0>>, NoRequest)
BlockConn == Conn("block", <<0, 0, 0, 0>>, NoRequest)
AbortedConn == Conn("aborted", <<0, 0, 0, 0>>, NoRequest)
NoConn == Conn("none", <<0, 0, 0, 0>>, NoRequest)
GarbageConn == Conn("data", <<255, 0, 19, 22>>, NoRequest)
TruncatedConn == Conn("data", GetBytes, Request("Err", TRUE, "/cb", <<>>))
\* Bytes that fill the whole buffer without a space or a line end: the parser
\* reaches the end of the buffer inside the first token and reports Partial.
OverlongConn == Conn("data", <<65, 65, 65, 65>>, Request("Partial", FALSE, "", <<>>))
RootConn == Http("/", <<>>)
RootLocalConn == Http("/", <<Header("Host", LocalhostBytes)>>)
CbConn(u) == Http("/cb", <<Header("Host", LoopbackBytes), Header("Full-Url", u)>>)
CbBareConn == Http("/cb", <<>>)
ExitConn == Http("/exit", <<>>)

\* The connections clients make to a single listener.
Conns ==
    { SentinelConn, EofConn, ReadErrConn, BlockConn, AbortedConn, GarbageConn,
      TruncatedConn, OverlongConn,
      RootConn, RootLocalConn, CbConn(UrlAscii), CbConn(UrlTwoByte),
      CbConn(UrlNotUtf8), CbConn(<<>>), CbBareConn, ExitConn }

\* Further requests a client can send.  PostBytes is the method of a POST.
PostBytes == <<80, 79, 83, 84>>
\* "localhost:49152" and "localhost.evil" as Host values.
LocalhostPortBytes == LocalhostBytes \o <<58, 52, 57, 49, 53, 50>>
LocalhostEvilBytes == LocalhostBytes \o <<46, 101, 118, 105, 108>>

\* A request line with the path /exit followed by bytes the parser rejects:
\* request.path is set, parse returns Err.
ExitErrConn == Conn("data", GetBytes, Request("Err", TRUE, "/exit", <<>>))
ExitUrlConn == Http("/exit", <<Header("Full-Url", UrlAscii)>>)
RootUrlConn == Http("/", <<Header("Full-Url", UrlAscii)>>)
PostUrlConn ==
    Conn("data", PostBytes, Request("Complete", TRUE, "/cb", <<Header("Full-Url", UrlAscii)>>))
LowerNameConn == Http("/cb", <<Header("full-url", UrlAscii)>>)
TwoUrlConn == Http("/cb", <<Header("Full-Url", UrlTwoByte), Header("Full-Url", UrlAscii)>>)
HostConn(name, v) == Http("/", <<Header(name, v)>>)
TwoHostConn == Http("/", <<Header("Host", LocalhostBytes), Header("Host", LoopbackBytes)>>)
\* A Host header after the Full-Url header is never looked at.
UrlThenHostConn ==
    Http("/cb", <<Header("Full-Url", UrlAscii), Header("Host", LocalhostBytes)>>)

\* The connections of clients that send every shape of request.
WideConns ==
    { SentinelConn, EofConn, AbortedConn, TruncatedConn, OverlongConn, ExitErrConn,
      ExitConn, ExitUrlConn,
      CbConn(UrlAscii), CbConn(UrlNotUtf8), CbConn(<<>>), RootUrlConn, PostUrlConn,
      TwoUrlConn, UrlThenHostConn, LowerNameConn, CbBareConn,
      RootConn, HostConn("Host", LocalhostBytes), HostConn("Host", LocalhostPortBytes),
      HostConn("Host", LocalhostEvilBytes), HostConn("Host", LoopbackBytes),
      HostConn("host", LocalhostBytes), TwoHostConn }

(***************************************************************************)
(* HTML documents are sequences of tokens; the injected script is one      *)
(* token that carries its host and port.                                   *)
(***************************************************************************)
Tok(k) == [k |-> k, host |-> "", port |-> NoPort]

\* format!(r#"<script>fetch("http://{}:{}/cb",{{headers:{{"Full-Url":
\* window.location.href}}}})</script>"#, host, port)
Script(host, port) == [k |-> "script", host |-> host, port |-> port]

\* Option<&'static str>.
NoTemplate == [some |-> FALSE, s |-> <<>>]
Template(s) == [some |-> TRUE, s |-> s]

\* str::contains / str::replace for one token: every occurrence is replaced.
contains(s, k) == \E i \in 1..Len(s) : s[i] = Tok(k)

RECURSIVE replace(_, _, _)
replace(s, k, with) ==
    IF s = <<>> THEN <<>>
    ELSE (IF s[1] = Tok(k) THEN with ELSE <<s[1]>>) \o replace(Tail(s), k, with)

DefaultBody(script) ==
    << Tok("<html>"), Tok("<head>"), script, Tok("</head>"), Tok("<body>"),
       Tok("Please return to the app."), Tok("</body>"), Tok("</html>") >>

\* A variant that puts the script in front of <head>.
SynthesizeBeforeHead(response, script) ==
    IF response.some /\ contains(response.s, "<head>")
        THEN replace(response.s, "<head>", <<script, Tok("<head>")>>)
    ELSE IF response.some
        THEN replace(response.s, "<body>",
                     <<Tok("<head>"), script, Tok("</head>"), Tok("<body>")>>)
    ELSE DefaultBody(script)

\* The match on response in handle_connection.
Synthesize(response, script) ==
    IF response.some /\ contains(response.s, "<head>")
        THEN replace(response.s, "<head>", <<Tok("<head>"), script>>)
    ELSE IF response.some
        THEN replace(response.s, "<body>",
                     <<Tok("<head>"), script, Tok("</head>"), Tok("<body>")>>)
    ELSE DefaultBody(script)

Digits(n) == IF n < 10 THEN 1 ELSE IF n < 100 THEN 2 ELSE IF n < 1000 THEN 3
             ELSE IF n < 10000 THEN 4 ELSE 5

\* The length in bytes of a token.
TokLen(t) ==
    CASE t.k = "script" ->
            81 + Digits(t.port)
               + (IF t.host = "localhost" THEN Len(LocalhostBytes) ELSE Len(LoopbackBytes))
      [] t.k = "<html>" -> 6
      [] t.k = "</html>" -> 7
      [] t.k = "<head>" -> 6
      [] t.k = "</head>" -> 7
      [] t.k = "<body>" -> 6
      [] t.k = "</body>" -> 7
      [] t.k = "Please return to the app." -> 25
      [] OTHER -> 2

RECURSIVE ByteLen(_)
ByteLen(s) == IF s = <<>> THEN 0 ELSE TokLen(s[1]) + ByteLen(Tail(s))

\* What is written to a connection: nothing, or
\* "HTTP/1.1 200 OK\r\nContent-Length: {}\r\n\r\n{}".
NoResponse == [sent |-> FALSE, status |-> 0, content_length |-> 0, body |-> <<>>]
Ok200(body) == [sent |-> TRUE, status |-> 200, content_length |-> ByteLen(body), body |-> body]

\* Response templates callers pass to start.
TemplateWithHead ==
    Template(<< Tok("<html>"), Tok("<head>"), Tok("</head>"), Tok("<body>"),
                Tok("ok"), Tok("</body>"), Tok("</html>") >>)
TemplateNoHead ==
    Template(<< Tok("<html>"), Tok("<body>"), Tok("ok"), Tok("</body>"), Tok("</html>") >>)
Templates == { NoTemplate, TemplateWithHead, TemplateNoHead }

\* Templates of other shapes: <head> twice (once inside the text), neither
\* <head> nor <body>, and <body> twice without <head>.
TemplateTwoHeads ==
    Template(<< Tok("<html>"), Tok("<head>"), Tok("</head>"), Tok("<body>"),
                Tok("ok"), Tok("<head>"), Tok("</body>"), Tok("</html>") >>)
TemplatePlain == Template(<< Tok("ok") >>)
TemplateTwoBodies ==
    Template(<< Tok("<body>"), Tok("ok"), Tok("<body>"), Tok("</body>") >>)
WideTemplates == Templates \cup { TemplateTwoHeads, TemplatePlain, TemplateTwoBodies }


(***************************************************************************)
(* handle_connection                                                       *)
(***************************************************************************)
\* conn.read(&mut buffer): the buffer afterwards.  A failed or empty read
\* leaves the zeros.
ReadBuffer(c) ==
    IF c.io = "data" THEN [first4 |-> c.first4, req |-> c.req] ELSE ZeroBuffer

\* buffer[..4] == EXIT
IsExit(buffer) == buffer.first4 = EXIT

\* A variant that goes on with whatever the parser left (an unwrap_or in
\* place of the ?).
ParseFailedIgnored(request) == FALSE

\* request.parse(&buffer).ok()? leaves the function with None on Err only.
ParseFailed(request) == request.status = "Err"

\* request.path.unwrap_or_default()
PathOf(request) == IF request.has_path THEN request.path ELSE ""

\* A variant that does not know the /exit path.
IsExitPathNever(path) == FALSE

\* path == "/exit"
IsExitPath(path) == path = "/exit"

\* A variant that looks for the header under a misspelt name.
RECURSIVE ScanHeadersMisspelt(_, _)
ScanHeadersMisspelt(hs, is_localhost) ==
    IF hs = <<>> THEN [found |-> FALSE, url |-> <<>>, is_localhost |-> is_localhost]
    ELSE IF hs[1].name = "Full-URL"
        THEN [found |-> TRUE, url |-> from_utf8_lossy(hs[1].value),
              is_localhost |-> is_localhost]
    ELSE IF hs[1].name = "Host"
        THEN ScanHeadersMisspelt(Tail(hs),
                                 starts_with(from_utf8_lossy(hs[1].value), LocalhostBytes))
    ELSE ScanHeadersMisspelt(Tail(hs), is_localhost)

\* A variant that takes the host for localhost only when the Host value is
\* exactly "localhost".
RECURSIVE ScanHeadersExactHost(_, _)
ScanHeadersExactHost(hs, is_localhost) ==
    IF hs = <<>> THEN [found |-> FALSE, url |-> <<>>, is_localhost |-> is_localhost]
    ELSE IF hs[1].name = "Full-Url"
        THEN [found |-> TRUE, url |-> from_utf8_lossy(hs[1].value),
              is_localhost |-> is_localhost]
    ELSE IF hs[1].name = "Host"
        THEN ScanHeadersExactHost(Tail(hs), from_utf8_lossy(hs[1].value) = LocalhostBytes)
    ELSE ScanHeadersExactHost(Tail(hs), is_localhost)

\* A variant that knows the header in lower case too.
RECURSIVE ScanHeadersAnyCase(_, _)
ScanHeadersAnyCase(hs, is_localhost) ==
    IF hs = <<>> THEN [found |-> FALSE, url |-> <<>>, is_localhost |-> is_localhost]
    ELSE IF hs[1].name \in {"Full-Url", "full-url"}
        THEN [found |-> TRUE, url |-> from_utf8_lossy(hs[1].value),
              is_localhost |-> is_localhost]
    ELSE IF hs[1].name = "Host"
        THEN ScanHeadersAnyCase(Tail(hs),
                                starts_with(from_utf8_lossy(hs[1].value), LocalhostBytes))
    ELSE ScanHeadersAnyCase(Tail(hs), is_localhost)

\* The loop over the headers: the first header named Full-Url ends it with
\* its value; a Host header before it sets is_localhost.
RECURSIVE ScanHeaders(_, _)
ScanHeaders(hs, is_localhost) ==
    IF hs = <<>> THEN [found |-> FALSE, url |-> <<>>, is_localhost |-> is_localhost]
    ELSE IF hs[1].name = "Full-Url"
        THEN [found |-> TRUE, url |-> from_utf8_lossy(hs[1].value),
              is_localhost |-> is_localhost]
    ELSE IF hs[1].name = "Host"
        THEN ScanHeaders(Tail(hs), starts_with(from_utf8_lossy(hs[1].value), LocalhostBytes))
    ELSE ScanHeaders(Tail(hs), is_localhost)

\* What a call of handle_connection does: the value it returns, what it
\* wrote to the connection, whether an unwrap panicked, what it logged, and
\* the place it returned from ("sentinel", "parse", "exit", "full_url",
\* "script"; "panic" when it did not return).
Result(ret, out, panicked, log, site) ==
    [ret |-> ret, out |-> out, panicked |-> panicked, log |-> log, site |-> site]

\* log::error! after a failed read.
ReadLog(c) == IF c.io = "err" THEN <<"read">> ELSE <<>>

\* What a request with a Full-Url header makes handle_connection do.
FullUrlResult(c, url) == Result(Some(url), NoResponse, FALSE, ReadLog(c), "full_url")

\* A variant that looks at the headers before the path.
handle_connection_headers_first(c, response, port, write_ok) ==
    LET buffer == ReadBuffer(c)
        request == buffer.req
        path == PathOf(request)
        scan == ScanHeaders(request.headers, FALSE)
        script == Script(IF scan.is_localhost THEN "localhost" ELSE "127.0.0.1", port)
        log == ReadLog(c) \o (IF path = "/cb" THEN <<"callback">> ELSE <<>>)
    IN  IF IsExit(buffer)
            THEN Result(Some(<<>>), NoResponse, FALSE, ReadLog(c), "sentinel")
        ELSE IF ParseFailed(request)
            THEN Result(None, NoResponse, FALSE, ReadLog(c), "parse")
        ELSE IF scan.found
            THEN FullUrlResult(c, scan.url)
        ELSE IF IsExitPath(path)
            THEN Result(Some(<<>>), NoResponse, FALSE, ReadLog(c), "exit")
        ELSE IF write_ok
            THEN Result(None, Ok200(Synthesize(response, script)), FALSE, log, "script")
        ELSE Result(None, NoResponse, TRUE, log, "panic")

\* handle_connection(conn, response, port), for a read that returns;
\* write_ok says whether write_all and flush succeed (their unwrap panics
\* otherwise).
handle_connection(c, response, port, write_ok) ==
    LET buffer == ReadBuffer(c)
        request == buffer.req
        path == PathOf(request)
        scan == ScanHeaders(request.headers, FALSE)
        script == Script(IF scan.is_localhost THEN "localhost" ELSE "127.0.0.1", port)
        log == ReadLog(c) \o (IF path = "/cb" THEN <<"callback">> ELSE <<>>)
    IN  IF IsExit(buffer)
            THEN Result(Some(<<>>), NoResponse, FALSE, ReadLog(c), "sentinel")
        ELSE IF ParseFailed(request)
            THEN Result(None, NoResponse, FALSE, ReadLog(c), "parse")
        ELSE IF IsExitPath(path)
            THEN Result(Some(<<>>), NoResponse, FALSE, ReadLog(c), "exit")
        ELSE IF scan.found
            THEN FullUrlResult(c, scan.url)
        ELSE IF write_ok
            THEN Result(None, Ok200(Synthesize(response, script)), FALSE, log, "script")
        ELSE Result(None, NoResponse, TRUE, log, "panic")

(***************************************************************************)
(* The listeners.  Listener l is the l-th call of start.                   *)
(***************************************************************************)
VARIABLES
    startpc,     \* where the call of start is: "idle" (not called), "spawned"
                 \* (thread spawned, not returned), "returned" (Ok(port)),
                 \* "failed" (returned Err)
    port,        \* the port the listener was bound to, NoPort before
    template,    \* the response argument of start
    thread,      \* the background thread: "none", "accept" (waiting in
                 \* listener.incoming()), "read" (in handle_connection),
                 \* "done" (left the loop), "panicked"
    backlog,     \* connections made to the socket and not yet accepted
    conn,        \* the connection handle_connection is working on
    calls,       \* the arguments handler was invoked with, in order
    wire,        \* what was written to the connection handled last
    last,        \* where handle_connection returned from for that connection
                 \* ("none" before the first)
    scriptSent,  \* whether a response with the script was written to some
                 \* connection of the listener
    seen,        \* what incoming() yielded to the loop last: the connection
                 \* accepted, or the one whose accept failed
    lastCancel   \* the last call of cancel: its port, whether it returned Ok,
                 \* and the listener its connection went to

vars == <<startpc, port, template, thread, backlog, conn, calls, wire, last,
          scriptSent, seen, lastCancel>>

NoCancel == [port |-> NoPort, ok |-> FALSE, to |-> NoPort]

Init ==
    /\ startpc = [l \in Listeners |-> "idle"]
    /\ port = [l \in Listeners |-> NoPort]
    /\ template = [l \in Listeners |-> NoTemplate]
    /\ thread = [l \in Listeners |-> "none"]
    /\ backlog = [l \in Listeners |-> <<>>]
    /\ conn = [l \in Listeners |-> NoConn]
    /\ calls = [l \in Listeners |-> <<>>]
    /\ wire = [l \in Listeners |-> NoResponse]
    /\ last = [l \in Listeners |-> "none"]
    /\ scriptSent = [l \in Listeners |-> FALSE]
    /\ seen = [l \in Listeners |-> NoConn]
    /\ lastCancel = NoCancel

\* The listening socket exists from bind until the thread (which owns the
\* TcpListener) ends.
SocketOpen(l) == thread[l] \in {"accept", "read"}

\* The listeners whose socket is bound to port p.
Owners(p) == {l \in Listeners : SocketOpen(l) /\ port[l] = p}

\* The ports bind can be given: those no open socket is bound to.  Which
\* number a port has means nothing to the program, so a port that was never
\* handed out is taken only when every lower one was.
FreePorts ==
    {p \in Ports : /\ Owners(p) = {}
                   /\ \A q \in Ports : q < p => \E k \in Listeners : port[k] = q}

Pending == LET n[l \in 0..MaxListeners] ==
                   IF l = 0 THEN 0
                   ELSE n[l - 1] + Len(backlog[l]) + (IF conn[l] = NoConn THEN 0 ELSE 1)
           IN  n[MaxListeners]

\* A variant of start that spawns the thread before it looks at the result of
\* local_addr.
StartBindSpawnFirst(l, response, outcome) ==
    /\ startpc[l] = "idle"
    /\ \A k \in Listeners : k < l => startpc[k] # "idle"
    /\ IF outcome # "bind_err"
       THEN \E p \in FreePorts :
              /\ port' = [port EXCEPT ![l] = p]
              /\ template' = [template EXCEPT ![l] = response]
              /\ thread' = [thread EXCEPT ![l] = "accept"]
              /\ startpc' = [startpc EXCEPT ![l] = IF outcome = "ok" THEN "spawned"
                                                                     ELSE "failed"]
       ELSE /\ startpc' = [startpc EXCEPT ![l] = "failed"]
            /\ UNCHANGED <<port, template, thread>>
    /\ UNCHANGED <<backlog, conn, calls, wire, last, scriptSent, seen, lastCancel>>

\* start, up to thread::spawn: bind and local_addr can each fail, and then
\* start returns the error and nothing is spawned.
StartBind(l, response, outcome) ==
    /\ startpc[l] = "idle"
    /\ \A k \in Listeners : k < l => startpc[k] # "idle"
    /\ IF outcome = "ok"
       THEN \E p \in FreePorts :
              /\ port' = [port EXCEPT ![l] = p]
              /\ template' = [template EXCEPT ![l] = response]
              /\ thread' = [thread EXCEPT ![l] = "accept"]
              /\ startpc' = [startpc EXCEPT ![l] = "spawned"]
       ELSE /\ startpc' = [startpc EXCEPT ![l] = "failed"]
            /\ UNCHANGED <<port, template, thread>>
    /\ UNCHANGED <<backlog, conn, calls, wire, last, scriptSent, seen, lastCancel>>

\* A variant of start that runs the accept loop itself and returns the port
\* when the loop has ended.
StartReturnAfterLoop(l) ==
    /\ startpc[l] = "spawned"
    /\ thread[l] \in {"done", "panicked"}
    /\ startpc' = [startpc EXCEPT ![l] = "returned"]
    /\ UNCHANGED <<port, template, thread, backlog, conn, calls, wire, last,
                   scriptSent, seen, lastCancel>>

\* start returns Ok(port).
StartReturn(l) ==
    /\ startpc[l] = "spawned"
    /\ startpc' = [startpc EXCEPT ![l] = "returned"]
    /\ UNCHANGED <<port, template, thread, backlog, conn, calls, wire, last,
                   scriptSent, seen, lastCancel>>

\* A client connects to port p and sends what c says.
Connect(p, c) ==
    /\ Pending < MaxQueue
    /\ \E l \in Owners(p) : backlog' = [backlog EXCEPT ![l] = Append(@, c)]
    /\ UNCHANGED <<startpc, port, template, thread, conn, calls, wire, last,
                   scriptSent, seen, lastCancel>>

\* A variant of cancel that drops the error of connect.
CancelIgnoresError(p) ==
    IF Owners(p) = {}
    THEN /\ lastCancel' = [port |-> p, ok |-> TRUE, to |-> NoPort]
         /\ UNCHANGED <<startpc, port, template, thread, backlog, conn, calls, wire,
                        last, scriptSent, seen>>
    ELSE /\ Pending < MaxQueue
         /\ \E l \in Owners(p) :
              /\ backlog' = [backlog EXCEPT ![l] = Append(@, SentinelConn)]
              /\ lastCancel' = [port |-> p, ok |-> TRUE, to |-> l]
         /\ UNCHANGED <<startpc, port, template, thread, conn, calls, wire, last,
                        scriptSent, seen>>

\* cancel(port): connect, write EXIT, flush.
Cancel(p) ==
    IF Owners(p) = {}
    THEN /\ lastCancel' = [port |-> p, ok |-> FALSE, to |-> NoPort]
         /\ UNCHANGED <<startpc, port, template, thread, backlog, conn, calls, wire,
                        last, scriptSent, seen>>
    ELSE /\ Pending < MaxQueue
         /\ \E l \in Owners(p) :
              /\ backlog' = [backlog EXCEPT ![l] = Append(@, SentinelConn)]
              /\ lastCancel' = [port |-> p, ok |-> TRUE, to |-> l]
         /\ UNCHANGED <<startpc, port, template, thread, conn, calls, wire, last,
                        scriptSent, seen>>

\* A variant that leaves the loop when accepting fails.
AcceptBreaksOnError(l) ==
    /\ thread[l] = "accept"
    /\ backlog[l] # <<>>
    /\ seen' = [seen EXCEPT ![l] = Head(backlog[l])]
    /\ IF Head(backlog[l]).io = "aborted"
       THEN /\ thread' = [thread EXCEPT ![l] = "done"]
            /\ backlog' = [backlog EXCEPT ![l] = <<>>]
            /\ UNCHANGED conn
       ELSE /\ conn' = [conn EXCEPT ![l] = Head(backlog[l])]
            /\ thread' = [thread EXCEPT ![l] = "read"]
            /\ backlog' = [backlog EXCEPT ![l] = Tail(@)]
    /\ UNCHANGED <<startpc, port, template, calls, wire, last, scriptSent, lastCancel>>

\* A variant that takes the next connection while the one before it is
\* still being handled (a handler thread per connection).
AcceptWhileReading(l) ==
    /\ thread[l] \in {"accept", "read"}
    /\ backlog[l] # <<>>
    /\ backlog' = [backlog EXCEPT ![l] = Tail(@)]
    /\ seen' = [seen EXCEPT ![l] = Head(backlog[l])]
    /\ IF Head(backlog[l]).io = "aborted"
       THEN UNCHANGED <<thread, conn>>
       ELSE /\ conn' = [conn EXCEPT ![l] = Head(backlog[l])]
            /\ thread' = [thread EXCEPT ![l] = "read"]
    /\ UNCHANGED <<startpc, port, template, calls, wire, last, scriptSent, lastCancel>>

\* listener.incoming() yields the next connection: Ok(conn) enters
\* handle_connection, Err(err) is logged and the loop goes on.
Accept(l) ==
    /\ thread[l] = "accept"
    /\ backlog[l] # <<>>
    /\ backlog' = [backlog EXCEPT ![l] = Tail(@)]
    /\ seen' = [seen EXCEPT ![l] = Head(backlog[l])]
    /\ IF Head(backlog[l]).io = "aborted"
       THEN UNCHANGED <<thread, conn>>
       ELSE /\ conn' = [conn EXCEPT ![l] = Head(backlog[l])]
            /\ thread' = [thread EXCEPT ![l] = "read"]
    /\ UNCHANGED <<startpc, port, template, calls, wire, last, scriptSent, lastCancel>>

\* A variant with the break in the else branch: it leaves the loop on the
\* empty string only.
LoopDecisionBreakOnEmpty(ret) ==
    [invoke |-> ret.some /\ ret.s # <<>>, break |-> ret.some /\ ret.s = <<>>]

\* A variant with the break inside the if: it leaves the loop after a call of
\* handler only.
LoopDecisionBreakOnCall(ret) ==
    [invoke |-> ret.some /\ ret.s # <<>>, break |-> ret.some /\ ret.s # <<>>]

\* A variant without the test for the empty string: it invokes handler with
\* whatever handle_connection returned.
LoopDecisionInvokeAlways(ret) ==
    [invoke |-> ret.some, break |-> ret.some]

\* What the loop does with handle_connection's return value: whether it
\* invokes handler, and whether it breaks.
LoopDecision(ret) ==
    [invoke |-> ret.some /\ ret.s # <<>>, break |-> ret.some]

\* A variant whose thread outlives a failed write: the error is caught, and
\* the loop goes on with the next connection.
HandleCatchesPanic(l, write_ok) ==
    /\ thread[l] = "read"
    /\ conn[l].io # "block"
    /\ Len(calls[l]) < MaxCalls
    /\ LET r == handle_connection(conn[l], template[l], port[l], write_ok)
           d == LoopDecision(r.ret)
       IN  /\ wire' = [wire EXCEPT ![l] = r.out]
           /\ last' = [last EXCEPT ![l] = r.site]
           /\ scriptSent' = [scriptSent EXCEPT ![l] = @ \/ r.out.sent]
           /\ conn' = [conn EXCEPT ![l] = NoConn]
           /\ calls' = [calls EXCEPT ![l] = IF d.invoke THEN Append(@, r.ret.s) ELSE @]
           /\ thread' = [thread EXCEPT ![l] = IF d.break THEN "done" ELSE "accept"]
           /\ backlog' = [backlog EXCEPT ![l] = IF d.break THEN <<>> ELSE @]
    /\ UNCHANGED <<startpc, port, template, seen, lastCancel>>

\* A variant whose break ends every listener of the process, not only the
\* loop it is in.
HandleEndsProcess(l, write_ok) ==
    /\ thread[l] = "read"
    /\ conn[l].io # "block"
    /\ Len(calls[l]) < MaxCalls
    /\ LET r == handle_connection(conn[l], template[l], port[l], write_ok)
           d == LoopDecision(r.ret)
       IN  /\ wire' = [wire EXCEPT ![l] = r.out]
           /\ last' = [last EXCEPT ![l] = r.site]
           /\ scriptSent' = [scriptSent EXCEPT ![l] = @ \/ r.out.sent]
           /\ IF r.panicked
              THEN /\ thread' = [thread EXCEPT ![l] = "panicked"]
                   /\ backlog' = [backlog EXCEPT ![l] = <<>>]
                   /\ conn' = [conn EXCEPT ![l] = NoConn]
                   /\ UNCHANGED calls
              ELSE /\ calls' = [calls EXCEPT ![l] = IF d.invoke THEN Append(@, r.ret.s) ELSE @]
                   /\ IF d.break
                      THEN /\ thread' = [k \in Listeners |->
                                           IF SocketOpen(k) THEN "done" ELSE thread[k]]
                           /\ backlog' = [k \in Listeners |-> <<>>]
                           /\ conn' = [k \in Listeners |-> NoConn]
                      ELSE /\ thread' = [thread EXCEPT ![l] = "accept"]
                           /\ conn' = [conn EXCEPT ![l] = NoConn]
                           /\ UNCHANGED backlog
    /\ UNCHANGED <<startpc, port, template, seen, lastCancel>>

\* handle_connection on the accepted connection, and the rest of the loop
\* body.  The TcpListener is dropped when the thread ends, and the
\* connections still queued go with it.
Handle(l, write_ok) ==
    /\ thread[l] = "read"
    /\ conn[l].io # "block"
    /\ Len(calls[l]) < MaxCalls
    /\ LET r == handle_connection(conn[l], template[l], port[l], write_ok)
           d == LoopDecision(r.ret)
       IN  /\ wire' = [wire EXCEPT ![l] = r.out]
           /\ last' = [last EXCEPT ![l] = r.site]
           /\ scriptSent' = [scriptSent EXCEPT ![l] = @ \/ r.out.sent]
           /\ conn' = [conn EXCEPT ![l] = NoConn]
           /\ IF r.panicked
              THEN /\ thread' = [thread EXCEPT ![l] = "panicked"]
                   /\ backlog' = [backlog EXCEPT ![l] = <<>>]
                   /\ UNCHANGED calls
              ELSE /\ calls' = [calls EXCEPT ![l] = IF d.invoke THEN Append(@, r.ret.s) ELSE @]
                   /\ thread' = [thread EXCEPT ![l] = IF d.break THEN "done" ELSE "accept"]
                   /\ backlog' = [backlog EXCEPT ![l] = IF d.break THEN <<>> ELSE @]
    /\ UNCHANGED <<startpc, port, template, seen, lastCancel>>

StartOutcomes == {"ok", "bind_err", "addr_err"}

\* One listener, clients that make every kind of connection, every template.
Next ==
    \/ \E t \in Templates, o \in StartOutcomes : StartBind(1, t, o)
    \/ StartReturn(1)
    \/ \E p \in Ports, c \in Conns : Connect(p, c)
    \/ Accept(1)
    \/ \E w \in BOOLEAN : Handle(1, w)

Spec == Init /\ [][Next]_vars

\* The connections clients make when several listeners run.
FewConns == { CbConn(UrlAscii), ExitConn }

\* Every listener, the callers of cancel, and clients that make a few kinds
\* of connection.
NextMulti ==
    \/ \E l \in Listeners, o \in StartOutcomes : StartBind(l, NoTemplate, o)
    \/ \E l \in Listeners : StartReturn(l)
    \/ \E p \in Ports, c \in FewConns : Connect(p, c)
    \/ \E p \in Ports : Cancel(p)
    \/ \E l \in Listeners : Accept(l)
    \/ \E l \in Listeners, w \in BOOLEAN : Handle(l, w)

SpecMulti == Init /\ [][NextMulti]_vars

\* A client connects to port p when no other connection is pending.
ConnectAlone(p, c) ==
    /\ Pending = 0
    /\ Connect(p, c)

\* One listener and clients that send every shape of request, one
\* connection at a time, with every shape of template.
NextSerial ==
    \/ \E t \in WideTemplates, o \in StartOutcomes : StartBind(1, t, o)
    \/ StartReturn(1)
    \/ \E p \in Ports, c \in WideConns : ConnectAlone(p, c)
    \/ Accept(1)
    \/ \E w \in BOOLEAN : Handle(1, w)

SpecSerial == Init /\ [][NextSerial]_vars

(***************************************************************************)
(* The properties.                                                         *)
(***************************************************************************)
\* A step in which listener l finishes handling its connection.
HandleStep(l) == thread[l] = "read" /\ thread'[l] # "read"

\* What a connection carries, read off the connection itself.
CarriesSentinel(c) == c.io = "data" /\ c.first4 = EXIT

CarriesRequest(c) == c.io = "data" /\ c.first4 # EXIT /\ c.req.status # "Err"

CarriesExitPath(c) == CarriesRequest(c) /\ c.req.has_path /\ c.req.path = "/exit"

HasHeader(c, n) == \E i \in 1..Len(c.req.headers) : c.req.headers[i].name = n

FirstValue(c, n) ==
    LET i == CHOOSE i \in 1..Len(c.req.headers) :
                 /\ c.req.headers[i].name = n
                 /\ \A j \in 1..(i - 1) : c.req.headers[j].name # n
    IN  c.req.headers[i].value

CarriesFullUrl(c) == CarriesRequest(c) /\ ~CarriesExitPath(c) /\ HasHeader(c, "Full-Url")

\* Nothing was read, or bytes the parser rejects: the zero bytes that follow
\* the data in the buffer make it reject whatever is not a whole request head.
Rejected(c) ==
    \/ c.io \in {"eof", "err"}
    \/ c.io = "data" /\ c.first4 # EXIT /\ c.req.status = "Err"

\* Nothing, random bytes or a truncated request: the read returns and the
\* bytes are neither the sentinel nor hold a request line.
Malformed(c) ==
    \/ Rejected(c)
    \/ c.io = "data" /\ c.first4 # EXIT /\ c.req.status = "Partial" /\ ~c.req.has_path

\* The UTF-8 encoding of a String (code points below 0x10000), the bytes a
\* String holds in memory.
RECURSIVE as_bytes(_)
as_bytes(s) ==
    IF s = <<>> THEN <<>>
    ELSE (IF s[1] < 128 THEN <<s[1]>>
          ELSE IF s[1] < 2048 THEN <<192 + (s[1] \div 64), 128 + (s[1] % 64)>>
          ELSE <<224 + (s[1] \div 4096), 128 + ((s[1] \div 64) % 64), 128 + (s[1] % 64)>>)
         \o as_bytes(Tail(s))

\* Whether a byte sequence (over ASCII, two-byte sequences and bytes that
\* start no sequence) is UTF-8.
RECURSIVE IsUtf8(_)
IsUtf8(v) ==
    IF v = <<>> THEN TRUE
    ELSE IF v[1] < 128 THEN IsUtf8(Tail(v))
    ELSE /\ v[1] \in 194..223
         /\ Len(v) >= 2
         /\ v[2] \in 128..191
         /\ IsUtf8(Tail(Tail(v)))

\* C1: whatever connections a listener gets, its handler is invoked at most
\* once.
C1_AtMostOneCall == \A l \in Listeners : Len(calls[l]) <= 1

C1_Witness ==
    \E l \in Listeners : thread[l] = "done" /\ Len(calls[l]) = 1 /\ scriptSent[l]

\* C2, as claimed: once the script has been served, handling a request to /cb
\* with a non-empty Full-Url value U invokes the handler exactly once, with
\* exactly the bytes of U, and ends the loop.
C2_Original ==
    [][\A l \in Listeners :
         ( /\ HandleStep(l)
           /\ scriptSent[l]
           /\ CarriesFullUrl(conn[l])
           /\ conn[l].req.path = "/cb"
           /\ FirstValue(conn[l], "Full-Url") # <<>> )
         => /\ Len(calls'[l]) = 1
            /\ as_bytes(calls'[l][1]) = FirstValue(conn[l], "Full-Url")
            /\ thread'[l] = "done"]_vars

\* C2, amended: the argument is the lossy UTF-8 decoding of U, which has the
\* bytes of U when U is UTF-8.
C2_RoundTrip ==
    [][\A l \in Listeners :
         ( /\ HandleStep(l)
           /\ scriptSent[l]
           /\ CarriesFullUrl(conn[l])
           /\ conn[l].req.path = "/cb"
           /\ FirstValue(conn[l], "Full-Url") # <<>> )
         => /\ calls'[l] = <<from_utf8_lossy(FirstValue(conn[l], "Full-Url"))>>
            /\ ( IsUtf8(FirstValue(conn[l], "Full-Url"))
                 => as_bytes(calls'[l][1]) = FirstValue(conn[l], "Full-Url") )
            /\ thread'[l] = "done"]_vars

C2_Witness ==
    \E l \in Listeners :
        /\ thread[l] = "done"
        /\ scriptSent[l]
        /\ last[l] = "full_url"
        /\ calls[l] = <<from_utf8_lossy(UrlTwoByte)>>

\* C3, as claimed: when cancel has sent the sentinel to an active listener,
\* that listener's handler is not invoked in its run.
C3_CancelNeverInvokes ==
    \A l \in Listeners : (lastCancel.ok /\ lastCancel.to = l) => calls[l] = <<>>

\* C4: handling a request whose path is /exit ends the loop as the sentinel
\* does: the thread is done, the socket is gone, nothing was written and the
\* handler was not invoked.
C4_ExitPathStops ==
    [][\A l \in Listeners :
         (HandleStep(l) /\ CarriesExitPath(conn[l]))
         => /\ thread'[l] = "done"
            /\ calls'[l] = calls[l]
            /\ wire'[l] = NoResponse
            /\ backlog'[l] = <<>>]_vars

C4_Witness ==
    \E l \in Listeners : thread[l] = "done" /\ last[l] = "exit" /\ calls[l] = <<>>

\* C5: after a listener has handled a sentinel or a request to /exit, it
\* accepts and handles nothing more, holds no queued connection and never
\* invokes the handler.
C5_NothingAfterCancellation ==
    [][\A l \in Listeners :
         (last[l] \in {"sentinel", "exit"})
         => /\ thread'[l] = thread[l]
            /\ conn'[l] = NoConn
            /\ last'[l] = last[l]
            /\ calls'[l] = calls[l]
            /\ backlog'[l] = <<>>]_vars

C5_Witness ==
    \E l \in Listeners :
        /\ last[l] = "sentinel"
        /\ thread[l] = "done"
        /\ scriptSent[l]
        /\ calls[l] = <<>>

\* C6: once the thread is spawned, start can return whatever the connections
\* do, and a step that accepts, reads or writes is a step of the thread, not
\* of start.
C6_StartDoesNotWait ==
    [][\A l \in Listeners :
         /\ startpc[l] = "spawned" => ENABLED StartReturn(l)
         /\ ( \/ conn'[l] # conn[l]
              \/ wire'[l] # wire[l]
              \/ last'[l] # last[l]
              \/ Len(backlog'[l]) < Len(backlog[l]) )
            => (thread[l] \in {"accept", "read"} /\ startpc'[l] = startpc[l])]_vars

C6_Witness ==
    \E l \in Listeners :
        /\ startpc[l] = "returned"
        /\ port[l] \in Ports
        /\ thread[l] = "accept"
        /\ last[l] = "none"
        /\ conn[l] = NoConn
        /\ backlog[l] = <<>>

C8_FailedStartSpawnsNothing ==
    \A l \in Listeners :
        startpc[l] = "failed"
        => /\ thread[l] = "none"
           /\ port[l] = NoPort
           /\ backlog[l] = <<>>
           /\ conn[l] = NoConn
           /\ last[l] = "none"
           /\ calls[l] = <<>>

C8_Witness == \E l \in Listeners : startpc[l] = "failed"

\* C9: a call of cancel for a port that no running listener is bound to (as
\* the port of a listener whose loop has ended) returns an error and changes
\* nothing of any listener.
C9_CancelOnReleasedPort ==
    [][\A p \in Ports :
         ( /\ lastCancel' # lastCancel
           /\ lastCancel'.port = p
           /\ ~\E k \in Listeners : thread[k] \in {"accept", "read"} /\ port[k] = p )
         => /\ ~lastCancel'.ok
            /\ UNCHANGED <<startpc, port, template, thread, backlog, conn, calls, wire,
                           last, scriptSent>>]_vars

C9_Witness ==
    \E l \in Listeners :
        /\ thread[l] = "done"
        /\ lastCancel = [port |-> port[l], ok |-> FALSE, to |-> NoPort]
        /\ \A k \in Listeners : thread[k] \notin {"accept", "read"}

\* C10, as claimed: the connection whose Full-Url value went to the handler
\* was sent a 200 OK response.
C10_FullUrlGetsResponse ==
    [][\A l \in Listeners :
         ( /\ HandleStep(l)
           /\ CarriesFullUrl(conn[l])
           /\ FirstValue(conn[l], "Full-Url") # <<>> )
         => (wire'[l].sent /\ wire'[l].status = 200)]_vars

\* A first-phase request: parsed, not /exit, no header named Full-Url.
FirstPhase(c) == CarriesRequest(c) /\ ~CarriesExitPath(c) /\ ~HasHeader(c, "Full-Url")

\* The positions of a document that hold a script fetching from port p.
ScriptsAt(body, p) ==
    {i \in 1..Len(body) : /\ body[i].k = "script"
                           /\ body[i].port = p
                           /\ body[i].host \in {"localhost", "127.0.0.1"}}

\* C11, as claimed: handling a first-phase request whose response can be
\* written sends, whatever the template, a 200 OK response whose body holds
\* the script with the listener's own port; the loop goes back to accept and
\* the handler is not invoked.
C11_FirstPhaseAnswered ==
    [][\A l \in Listeners :
         (HandleStep(l) /\ FirstPhase(conn[l]) /\ thread'[l] # "panicked")
         => /\ wire'[l].sent
            /\ wire'[l].status = 200
            /\ ScriptsAt(wire'[l].body, port[l]) # {}
            /\ thread'[l] = "accept"
            /\ calls'[l] = calls[l]]_vars

\* The value of the last header named n.
LastValue(c, n) ==
    LET i == CHOOSE i \in 1..Len(c.req.headers) :
                 /\ c.req.headers[i].name = n
                 /\ \A j \in (i + 1)..Len(c.req.headers) : c.req.headers[j].name # n
    IN  c.req.headers[i].value

\* A Host value that names localhost, with or without a port.
NamesLocalhost(v) == v = LocalhostBytes \/ starts_with(v, LocalhostBytes \o <<58>>)

\* The host every script of a document fetches from.
ScriptHostIs(body, host) ==
    \A i \in 1..Len(body) : body[i].k = "script" => body[i].host = host

\* C12, as claimed: the script sent for a first-phase request fetches from
\* localhost when the request's Host header names localhost, and from
\* 127.0.0.1 for any other Host value and when there is no Host header.
C12_Original ==
    [][\A l \in Listeners :
         (HandleStep(l) /\ FirstPhase(conn[l]) /\ wire'[l].sent)
         => ScriptHostIs(wire'[l].body,
                IF /\ HasHeader(conn[l], "Host")
                   /\ NamesLocalhost(FirstValue(conn[l], "Host"))
                THEN "localhost" ELSE "127.0.0.1")]_vars

\* C12, amended: the script fetches from localhost when the value of the
\* last header named exactly Host begins with the bytes of "localhost"
\* (localhost:49152 and localhost.evil alike), and from 127.0.0.1 otherwise.
C12_HostChoice ==
    [][\A l \in Listeners :
         (HandleStep(l) /\ FirstPhase(conn[l]) /\ wire'[l].sent)
         => ScriptHostIs(wire'[l].body,
                IF /\ HasHeader(conn[l], "Host")
                   /\ starts_with(LastValue(conn[l], "Host"), LocalhostBytes)
                THEN "localhost" ELSE "127.0.0.1")]_vars

C12_Witness ==
    \E l \in Listeners :
        /\ seen[l] = HostConn("Host", LocalhostEvilBytes)
        /\ last[l] = "script"
        /\ wire[l].sent
        /\ \E i \in 1..Len(wire[l].body) :
              wire[l].body[i] = Script("localhost", port[l])

\* A document without the tokens at the positions in drop.
Without(body, drop) ==
    LET F[i \in 0..Len(body)] ==
            IF i = 0 THEN <<>>
            ELSE IF i \in drop THEN F[i - 1]
            ELSE Append(F[i - 1], body[i])
    IN  F[Len(body)]

\* The positions of the scripts of a document.
ScriptPositions(body) == {i \in 1..Len(body) : body[i].k = "script"}

\* The document sent when start was given no template, without its script.
DefaultDocument ==
    << Tok("<html>"), Tok("<head>"), Tok("</head>"), Tok("<body>"),
       Tok("Please return to the app."), Tok("</body>"), Tok("</html>") >>

\* Every <head> of the document is followed at once by a script, every
\* script follows a <head>, and the rest is the template.
ScriptAfterHead(body, t) ==
    /\ \A i \in 1..Len(body) :
          body[i] = Tok("<head>") => (i < Len(body) /\ body[i + 1].k = "script")
    /\ \A i \in ScriptPositions(body) : i > 1 /\ body[i - 1] = Tok("<head>")
    /\ Without(body, ScriptPositions(body)) = t

\* Every <body> of the document has <head>, a script and </head> right in
\* front of it, every script stands in such a head, and the rest is the
\* template.
HeadBeforeBody(body, t) ==
    LET S == ScriptPositions(body)
    IN  /\ \A i \in 1..Len(body) :
              body[i] = Tok("<body>")
              => /\ i > 3
                 /\ body[i - 3] = Tok("<head>")
                 /\ (i - 2) \in S
                 /\ body[i - 1] = Tok("</head>")
        /\ \A i \in S :
              /\ i > 1 /\ i + 2 <= Len(body)
              /\ body[i - 1] = Tok("<head>")
              /\ body[i + 1] = Tok("</head>")
              /\ body[i + 2] = Tok("<body>")
        /\ Without(body, S \cup {i - 1 : i \in S} \cup {i + 1 : i \in S}) = t

\* C13: the body sent for a first-phase request is, without a template, the
\* default document with the script in its head; for a template that
\* contains <head>, the template with the script right after <head>; for a
\* template without <head>, the template with <head>, the script and </head>
\* right in front of <body>.
C13_Synthesis ==
    [][\A l \in Listeners :
         (HandleStep(l) /\ FirstPhase(conn[l]) /\ wire'[l].sent)
         => LET body == wire'[l].body
                t == template[l]
            IN  IF ~t.some
                    THEN /\ ScriptPositions(body) = {3}
                         /\ Without(body, {3}) = DefaultDocument
                ELSE IF \E i \in 1..Len(t.s) : t.s[i] = Tok("<head>")
                    THEN ScriptAfterHead(body, t.s)
                ELSE HeadBeforeBody(body, t.s)]_vars

C13_Witness ==
    \E l \in Listeners :
        /\ template[l] = TemplateNoHead
        /\ last[l] = "script"
        /\ wire[l].sent
        /\ wire[l].body =
             << Tok("<html>"), Tok("<head>"), Script("127.0.0.1", port[l]), Tok("</head>"),
                Tok("<body>"), Tok("ok"), Tok("</body>"), Tok("</html>") >>

\* C14: when the response to a first-phase request cannot be written, the
\* thread panics: from then on it accepts and handles nothing, the
\* connections still queued are gone, the handler is not invoked, and the
\* call of start is not affected (it returns the port, or has returned it).
C14_WriteFailureAborts ==
    [][\A l \in Listeners :
         /\ (HandleStep(l) /\ FirstPhase(conn[l]) /\ ~wire'[l].sent)
            => /\ thread'[l] = "panicked"
               /\ calls'[l] = calls[l]
               /\ backlog'[l] = <<>>
               /\ startpc[l] \in {"spawned", "returned"}
               /\ startpc'[l] = startpc[l]
         /\ thread[l] = "panicked"
            => /\ thread'[l] = "panicked"
               /\ conn'[l] = NoConn
               /\ backlog'[l] = <<>>
               /\ calls'[l] = calls[l]
               /\ wire'[l] = wire[l]
               /\ startpc'[l] \in {"spawned", "returned"}
               /\ (startpc[l] = "spawned" => ENABLED StartReturn(l))]_vars

C14_Witness ==
    \E l \in Listeners :
        /\ thread[l] = "panicked"
        /\ FirstPhase(seen[l])
        /\ ~wire[l].sent
        /\ startpc[l] = "returned"
        /\ calls[l] = <<>>

\* C15: when accepting a connection fails, the thread stays in the loop
\* with its socket, the handler is not invoked and nothing is written; the
\* connection accepted next is handed to handle_connection as any other.
C15_AcceptErrorSkipped ==
    [][\A l \in Listeners :
         /\ ( /\ thread[l] = "accept"
              /\ backlog[l] # <<>>
              /\ Head(backlog[l]).io = "aborted"
              /\ Len(backlog'[l]) < Len(backlog[l]) )
            => /\ thread'[l] = "accept"
               /\ backlog'[l] = Tail(backlog[l])
               /\ conn'[l] = NoConn
               /\ calls'[l] = calls[l]
               /\ wire'[l] = wire[l]
               /\ last'[l] = last[l]
         /\ ( /\ seen[l].io = "aborted"
              /\ thread[l] = "accept"
              /\ backlog[l] # <<>>
              /\ Head(backlog[l]).io # "aborted"
              /\ Len(backlog'[l]) < Len(backlog[l]) )
            => /\ thread'[l] = "read"
               /\ conn'[l] = Head(backlog[l])
               /\ backlog'[l] = Tail(backlog[l])
               /\ calls'[l] = calls[l]]_vars

C15_Witness ==
    \E l \in Listeners :
        /\ seen[l] = AbortedConn
        /\ thread[l] = "accept"
        /\ last[l] = "script"
        /\ backlog[l] = <<CbConn(UrlAscii)>>
        /\ calls[l] = <<>>

\* C16: a listener works on at most one connection, and takes them in the
\* order they arrived: a connection leaves the queue only from its head and
\* only while the thread waits in accept with no connection in hand; the
\* connection in hand is given up only when handle_connection is through
\* with it; new connections join the queue at its end.
C16_OneAtATime ==
    [][\A l \in Listeners :
         /\ (conn[l] # NoConn) <=> (thread[l] = "read")
         /\ (Len(backlog'[l]) < Len(backlog[l]) /\ thread'[l] \in {"accept", "read"})
            => /\ thread[l] = "accept"
               /\ conn[l] = NoConn
               /\ backlog'[l] = Tail(backlog[l])
               /\ conn'[l] = Head(backlog[l]) \/ Head(backlog[l]).io = "aborted"
         /\ (conn[l] # NoConn /\ conn'[l] # conn[l])
            => (conn'[l] = NoConn /\ HandleStep(l) /\ last'[l] # "none")
         /\ Len(backlog'[l]) > Len(backlog[l])
            => /\ SubSeq(backlog'[l], 1, Len(backlog[l])) = backlog[l]
               /\ conn'[l] = conn[l]]_vars

C16_Witness ==
    \E l \in Listeners :
        /\ thread[l] = "read"
        /\ conn[l] = RootConn
        /\ backlog[l] = <<CbConn(UrlAscii)>>
        /\ last[l] = "parse"
        /\ seen[l] = RootConn

\* What belongs to listener l.
Own(l) ==
    <<startpc[l], port[l], template[l], thread[l], backlog[l], conn[l], calls[l],
      wire[l], last[l], scriptSent[l], seen[l]>>

\* C17: listeners whose sockets are open at the same time have different
\* ports; a step in which one listener handles a connection (sentinel, /exit,
\* Full-Url) ends at most that listener's loop, invokes at most that
\* listener's handler and changes nothing of any other listener; and the
\* sentinel of cancel(p) reaches the listener bound to p and no other.
C17_ListenersIndependent ==
    [][/\ \A l, k \in Listeners :
            (l # k /\ SocketOpen(l) /\ SocketOpen(k)) => port[l] # port[k]
       /\ \A l \in Listeners :
            HandleStep(l) => \A k \in Listeners \ {l} : Own(k)' = Own(k)
       /\ (lastCancel' # lastCancel /\ lastCancel'.ok)
            => /\ lastCancel'.to \in Listeners
               /\ port[lastCancel'.to] = lastCancel'.port
               /\ SocketOpen(lastCancel'.to)
               /\ \A k \in Listeners \ {lastCancel'.to} : Own(k)' = Own(k)]_vars

C17_Witness ==
    \E l, k \in Listeners :
        /\ l # k
        /\ thread[l] = "done"
        /\ last[l] = "full_url"
        /\ calls[l] = <<from_utf8_lossy(UrlAscii)>>
        /\ thread[k] = "read"
        /\ conn[k] = ExitConn
        /\ startpc[k] = "returned"
        /\ port[k] # port[l]
        /\ calls[k] = <<>>

\* C18: no argument the handler was invoked with is the empty string, and
\* handling a request whose Full-Url value is empty ends the loop as a
\* shutdown does: no call of the handler, nothing written, the socket gone.
C18_NeverEmpty ==
    [][\A l \in Listeners :
         /\ \A i \in 1..Len(calls'[l]) : calls'[l][i] # <<>>
         /\ ( /\ HandleStep(l)
              /\ CarriesFullUrl(conn[l])
              /\ FirstValue(conn[l], "Full-Url") = <<>> )
            => /\ thread'[l] = "done"
               /\ calls'[l] = calls[l]
               /\ ~wire'[l].sent
               /\ backlog'[l] = <<>>]_vars

C18_Witness ==
    \E l \in Listeners :
        /\ seen[l] = CbConn(<<>>)
        /\ thread[l] = "done"
        /\ last[l] = "full_url"
        /\ scriptSent[l]
        /\ calls[l] = <<>>

\* C19: the checks come in a fixed order.  Bytes that begin with the
\* sentinel shut the listener down though they are no request; bytes the
\* parser rejects are skipped though their request line names /exit; a
\* request to /exit shuts the listener down, and the handler is not invoked,
\* though it carries a Full-Url header.
C19_Precedence ==
    [][\A l \in Listeners :
         (HandleStep(l) /\ conn[l].io = "data")
         => /\ conn[l].first4 = EXIT
               => (thread'[l] = "done" /\ calls'[l] = calls[l] /\ ~wire'[l].sent)
            /\ (conn[l].first4 # EXIT /\ conn[l].req.status = "Err")
               => (thread'[l] = "accept" /\ calls'[l] = calls[l] /\ ~wire'[l].sent)
            /\ ( /\ conn[l].first4 # EXIT
                 /\ conn[l].req.status # "Err"
                 /\ conn[l].req.has_path
                 /\ conn[l].req.path = "/exit" )
               => (thread'[l] = "done" /\ calls'[l] = calls[l] /\ ~wire'[l].sent)]_vars

C19_Witness ==
    \E l \in Listeners :
        /\ seen[l] = ExitUrlConn
        /\ HasHeader(seen[l], "Full-Url")
        /\ FirstValue(seen[l], "Full-Url") # <<>>
        /\ thread[l] = "done"
        /\ last[l] = "exit"
        /\ calls[l] = <<>>

\* C20, as claimed: the handler is invoked only in a step that handles a
\* parsed request with a header named exactly Full-Url and a path other than
\* /exit, and its argument is the value of the first such header; such a
\* request with a non-empty value is captured whatever its method and path;
\* a request without a header of exactly that name is a first-phase request.
C20_Original ==
    [][\A l \in Listeners :
         /\ calls'[l] # calls[l]
            => /\ HandleStep(l)
               /\ CarriesRequest(conn[l])
               /\ HasHeader(conn[l], "Full-Url")
               /\ ~CarriesExitPath(conn[l])
               /\ Len(calls'[l]) = Len(calls[l]) + 1
               /\ SubSeq(calls'[l], 1, Len(calls[l])) = calls[l]
               /\ as_bytes(calls'[l][Len(calls'[l])]) = FirstValue(conn[l], "Full-Url")
         /\ ( /\ HandleStep(l)
              /\ CarriesFullUrl(conn[l])
              /\ FirstValue(conn[l], "Full-Url") # <<>> )
            => calls'[l] # calls[l]
         /\ (HandleStep(l) /\ FirstPhase(conn[l]))
            => /\ calls'[l] = calls[l]
               /\ thread'[l] \in {"accept", "panicked"}
               /\ wire'[l].sent <=> thread'[l] = "accept"]_vars

\* C20, amended: the same, with the argument being the lossy UTF-8 decoding
\* of the value of the first header named Full-Url.
C20_CallsComeFromFullUrl ==
    [][\A l \in Listeners :
         /\ calls'[l] # calls[l]
            => /\ HandleStep(l)
               /\ CarriesRequest(conn[l])
               /\ HasHeader(conn[l], "Full-Url")
               /\ ~CarriesExitPath(conn[l])
               /\ calls'[l] =
                    Append(calls[l], from_utf8_lossy(FirstValue(conn[l], "Full-Url")))
               /\ ( IsUtf8(FirstValue(conn[l], "Full-Url"))
                    => as_bytes(calls'[l][Len(calls'[l])]) = FirstValue(conn[l], "Full-Url") )
         /\ ( /\ HandleStep(l)
              /\ CarriesFullUrl(conn[l])
              /\ FirstValue(conn[l], "Full-Url") # <<>> )
            => calls'[l] # calls[l]
         /\ (HandleStep(l) /\ FirstPhase(conn[l]))
            => /\ calls'[l] = calls[l]
               /\ thread'[l] \in {"accept", "panicked"}
               /\ wire'[l].sent <=> thread'[l] = "accept"]_vars

C20_Witness ==
    \E l \in Listeners :
        /\ seen[l] = RootUrlConn
        /\ seen[l].req.path # "/cb"
        /\ thread[l] = "done"
        /\ calls[l] = <<FirstValue(seen[l], "Full-Url")>>
        /\ scriptSent[l]

====
